---- MODULE Spec2Model ----
(***************************************************************************)
(* A model of iomidi.py: the Standard MIDI File reader (MIDIReader) and    *)
(* writer (MIDIWriter), their integer / variable-length primitives, and    *)
(* the document classes MIDIHeader and MIDI.                               *)
(*                                                                         *)
(* A file is a sequence of bytes (0..255); an open file is the pair        *)
(* (file, pos) with pos the 0-based offset of the next byte to read.       *)
(*                                                                         *)
(* MIDIReader._byteCount is not part of the state: the code adds to it     *)
(* (lines 227, 267, 276, 283) and never reads it.                          *)
(***************************************************************************)
EXTENDS Integers, Sequences, FiniteSets, TLC

VARIABLES
  file,           \* bytes of the file opened by MIDIReader.read
  pos,            \* f.tell() of that file
  pc,             \* where MIDIReader.read stands: idle/header/track/event/return/done/error
  err,            \* class of the exception that ended the read ("" if none)
  runningStatus,  \* MIDIReader._runningStatus
  header,         \* local `header` of read()
  tracks,         \* local `tracks` of read()
  track,          \* events of the MIDITrack under construction in _readTrack
  prefix,         \* local `prefix` of _readEvent, as read at line 194
  evPos,          \* f.tell() when the latest _readEvent was entered
  shortRead,      \* some f.read(n), n >= 0, of this read() returned fewer than n bytes
  result,         \* the MIDI returned by read()
  reads,          \* number of read() calls made on this MIDIReader
  doc,            \* the MIDI document the caller is assembling
  dpc,            \* caller's position: new / built / written
  disk,           \* bytes MIDIWriter.write left in the output file
  werr,           \* class of the exception that ended write ("" if none)
  vn,             \* integer given to _writeVarLen
  vtail,          \* bytes that follow the encoding in the stream
  vbytes,         \* the stream: encoding of vn followed by vtail
  vres,           \* what _readVarLen returned on vbytes
  vpc             \* start / written / read

readerVars == <<file, pos, pc, err, runningStatus, header, tracks,
                track, prefix, evPos, shortRead, result, reads>>
writerVars == <<doc, dpc, disk, werr>>
varLenVars == <<vn, vtail, vbytes, vres, vpc>>
vars == <<readerVars, writerVars, varLenVars>>

----------------------------------------------------------------------------
(* Bounds of the model *)

MaxEvents == 2     \* events before the EndOfTrack in a generated track
MaxReads == 2      \* read() calls on one MIDIReader
MaxPad == 2        \* extra header bytes beyond the 6 standard ones
MaxTracks == 2     \* tracks of a document handed to the writer
MaxVarLen == 40    \* the integers 0..MaxVarLen are given to _writeVarLen

----------------------------------------------------------------------------
(* Constants of iomidi.py *)

CHUNK_TYPE_HEADER == <<77, 84, 104, 100>>   \* 'MThd'
CHUNK_TYPE_TRACK == <<77, 84, 114, 107>>    \* 'MTrk'

PREFIX_SYSEX == 240
PREFIX_SYSEX_NOXMIT == 247
PREFIX_META == 255

STATUS_NOTE_OFF == 8
STATUS_NOTE_ON == 9
STATUS_POLY_KEY_PRESS == 10
STATUS_CONTROL_CHANGE == 11
STATUS_PROGRAM_CHANGE == 12
STATUS_CHANNEL_PRESS == 13
STATUS_PITCH_WHEEL_CHANGE == 14

META_END_OF_TRACK == 47

----------------------------------------------------------------------------
(* Events, headers, documents *)

\* One record shape for all event classes; a field a class does not have is 0 / <<>>.
\* a, b are the two positional operands after channel (key/velocity,
\* controller/value, value, least/most).
Event(cls, delta, channel, a, b, metaType, sysExType, data) ==
  [cls |-> cls, delta |-> delta, channel |-> channel, a |-> a, b |-> b,
   metaType |-> metaType, sysExType |-> sysExType, data |-> data]

NoEvent == Event("None", 0, 0, 0, 0, 0, 0, <<>>)

NoteOffEvent(delta, channel, key, velocity) ==
  Event("NoteOffEvent", delta, channel, key, velocity, 0, 0, <<>>)
NoteOnEvent(delta, channel, key, velocity) ==
  Event("NoteOnEvent", delta, channel, key, velocity, 0, 0, <<>>)
PolyphonicKeyPressureEvent(delta, channel, key, velocity) ==
  Event("PolyphonicKeyPressureEvent", delta, channel, key, velocity, 0, 0, <<>>)
ControlChangeEvent(delta, channel, controller, value) ==
  Event("ControlChangeEvent", delta, channel, controller, value, 0, 0, <<>>)
ProgramChangeEvent(delta, channel, value) ==
  Event("ProgramChangeEvent", delta, channel, value, 0, 0, 0, <<>>)
ChannelPressureEvent(delta, channel, value) ==
  Event("ChannelPressureEvent", delta, channel, value, 0, 0, 0, <<>>)
PitchWheelChangeEvent(delta, channel, least, most) ==
  Event("PitchWheelChangeEvent", delta, channel, least, most, 0, 0, <<>>)
MetaEvent(delta, metaType, data) ==
  Event("MetaEvent", delta, 0, 0, 0, metaType, 0, data)
EndOfTrackEvent(delta) ==
  Event("EndOfTrackEvent", delta, 0, 0, 0, META_END_OF_TRACK, 0, <<>>)
SystemExclusiveEvent(delta, sysExType, data) ==
  Event("SystemExclusiveEvent", delta, 0, 0, 0, 0, sysExType, data)

ChannelClasses ==
  {"NoteOffEvent", "NoteOnEvent", "PolyphonicKeyPressureEvent", "ControlChangeEvent",
   "ProgramChangeEvent", "ChannelPressureEvent", "PitchWheelChangeEvent"}

MIDIHeader(frmt, division, trackCount) ==
  [frmt |-> frmt, division |-> division, trackCount |-> trackCount]

NoHeader == MIDIHeader(0, 0, 0)

\* MIDI.__init__: trackCount is set from the tracks given; tracks may be None.
MIDI(hdr, trks, isNone) ==
  [header |-> [hdr EXCEPT !.trackCount = IF isNone THEN 0 ELSE Len(trks)],
   tracks |-> trks, tracksNone |-> isNone]

NoMIDI == [header |-> NoHeader, tracks |-> <<>>, tracksNone |-> TRUE]

----------------------------------------------------------------------------
(* MIDIReader primitives *)

\* f.read(n): up to n bytes from offset p; a negative n reads to the end of the file.
FileRead(s, p, n) ==
  LET e == IF n < 0 \/ p + n > Len(s) THEN Len(s) ELSE p + n
  IN [buff |-> SubSeq(s, p + 1, e), pos |-> e, short |-> n >= 0 /\ e - p < n]

RECURSIVE BigEndian(_)
\* the loop of _readInt over the bytes actually read
BigEndian(buff) ==
  IF buff = <<>> THEN 0
  ELSE BigEndian(SubSeq(buff, 1, Len(buff) - 1)) * 256 + buff[Len(buff)]

\* _readInt(f, byteCount)
ReadInt(s, p, n) ==
  LET r == FileRead(s, p, n)
  IN [val |-> BigEndian(r.buff), pos |-> r.pos, short |-> r.short]

\* _readBlock(f, byteCount)
ReadBlock(s, p, n) ==
  LET r == FileRead(s, p, n)
  IN [buff |-> r.buff, pos |-> r.pos, short |-> r.short]

RECURSIVE ReadVarLenLoop(_, _, _)
\* the while loop of _readVarLen; ord('') at end of file raises TypeError
ReadVarLenLoop(s, p, retVal) ==
  IF p >= Len(s)
  THEN [val |-> 0, pos |-> p, err |-> "TypeError"]
  ELSE LET byte == s[p + 1]
           v == retVal * 128 + (byte % 128)
       IN IF byte \div 128 = 0
          THEN [val |-> v, pos |-> p + 1, err |-> ""]
          ELSE ReadVarLenLoop(s, p + 1, v)

\* _readVarLen(f)
ReadVarLen(s, p) == ReadVarLenLoop(s, p, 0)

----------------------------------------------------------------------------
(* MIDIReader event decoding.  Each operator returns                         *)
(* [event, pos, rs, err, short]: the event, the new file offset, the new     *)
(* _runningStatus, the exception class, and whether some read came back      *)
(* short.                                                                    *)

EvResult(event, p, rs, e, short) ==
  [event |-> event, pos |-> p, rs |-> rs, err |-> e, short |-> short]

\* _readSystemExclusiveEvent(delta, prefix, f)
ReadSystemExclusiveEvent(s, p, delta, pfx, rs) ==
  LET length == ReadVarLen(s, p) IN
  IF length.err # ""
  THEN EvResult(NoEvent, length.pos, rs, length.err, FALSE)
  ELSE LET data == ReadBlock(s, length.pos, length.val)
       IN EvResult(SystemExclusiveEvent(delta, pfx, data.buff), data.pos, rs, "",
                   data.short)

\* a mutation of IsEndOfTrack: every type up to 0x2F ends the track
IsEndOfTrackUpTo(metaType) == metaType <= META_END_OF_TRACK

\* the test of line 213
IsEndOfTrack(metaType) == metaType = META_END_OF_TRACK

\* _readMetaEvent(delta, prefix, f)
ReadMetaEvent(s, p, delta, pfx, rs) ==
  LET metaType == ReadInt(s, p, 1)
      length == ReadVarLen(s, metaType.pos)
  IN IF length.err # ""
     THEN EvResult(NoEvent, length.pos, rs, length.err, metaType.short)
     ELSE LET data == ReadBlock(s, length.pos, length.val)
              event == IF IsEndOfTrack(metaType.val)
                       THEN EndOfTrackEvent(delta)
                       ELSE MetaEvent(delta, metaType.val, data.buff)
          IN EvResult(event, data.pos, rs, "", metaType.short \/ data.short)

\* a mutation of SeekBack: the data byte read as prefix is not given back
SeekNone(p) == p

\* f.seek(-1, io.SEEK_CUR), line 226
SeekBack(p) == p - 1

\* _readMIDIEvent(delta, prefix, f)
ReadMIDIEvent(s, p, delta, pfx, rs) ==
  LET fresh == (pfx \div 128) % 2 = 1
      eff == IF fresh THEN pfx ELSE rs            \* prefix after line 225
      rs2 == IF fresh THEN pfx ELSE rs            \* line 223
      p0 == IF fresh THEN p ELSE SeekBack(p)
      status == eff \div 16
      channel == eff % 16
      o1 == ReadInt(s, p0, 1)
      o2 == ReadInt(s, o1.pos, 1)
      Two(ev) == EvResult(ev, o2.pos, rs2, "", o1.short \/ o2.short)
      One(ev) == EvResult(ev, o1.pos, rs2, "", o1.short)
  IN CASE status = STATUS_NOTE_OFF ->
            Two(NoteOffEvent(delta, channel, o1.val, o2.val))
       [] status = STATUS_NOTE_ON ->
            Two(NoteOnEvent(delta, channel, o1.val, o2.val))
       [] status = STATUS_POLY_KEY_PRESS ->
            Two(PolyphonicKeyPressureEvent(delta, channel, o1.val, o2.val))
       [] status = STATUS_CONTROL_CHANGE ->
            Two(ControlChangeEvent(delta, channel, o1.val, o2.val))
       [] status = STATUS_PROGRAM_CHANGE ->
            One(ProgramChangeEvent(delta, channel, o1.val))
       [] status = STATUS_CHANNEL_PRESS ->
            One(ChannelPressureEvent(delta, channel, o1.val))
       [] status = STATUS_PITCH_WHEEL_CHANGE ->
            Two(PitchWheelChangeEvent(delta, channel, o1.val, o2.val))
       [] OTHER ->   \* no branch binds `event`: line 259 raises UnboundLocalError
            EvResult(NoEvent, p0, rs2, "UnboundLocalError", FALSE)

\* _readEvent(f); the record also carries the prefix read at line 194
ReadEvent(s, p, rs) ==
  LET delta == ReadVarLen(s, p) IN
  IF delta.err # ""
  THEN EvResult(NoEvent, delta.pos, rs, delta.err, FALSE) @@ [prefix |-> 0]
  ELSE LET pf == ReadInt(s, delta.pos, 1)
           r == IF pf.val = PREFIX_SYSEX \/ pf.val = PREFIX_SYSEX_NOXMIT
                THEN ReadSystemExclusiveEvent(s, pf.pos, delta.val, pf.val, rs)
                ELSE IF pf.val = PREFIX_META
                THEN ReadMetaEvent(s, pf.pos, delta.val, pf.val, rs)
                ELSE ReadMIDIEvent(s, pf.pos, delta.val, pf.val, rs)
       IN [r EXCEPT !.short = @ \/ pf.short] @@ [prefix |-> pf.val]

\* _readHeader(f): [header, pos, err, short]
ReadHeader(s, p) ==
  LET buff == ReadBlock(s, p, 4)
      length == ReadInt(s, buff.pos, 4)
      frmt == ReadInt(s, length.pos, 2)
      trackCount == ReadInt(s, frmt.pos, 2)
      division == ReadInt(s, trackCount.pos, 2)
      rest == ReadBlock(s, division.pos, length.val - 6)
  IN IF buff.buff # CHUNK_TYPE_HEADER
     THEN [header |-> NoHeader, pos |-> buff.pos, err |-> "MIDIIOError",
           short |-> buff.short]
     ELSE [header |-> MIDIHeader(frmt.val, division.val, trackCount.val),
           pos |-> rest.pos,
           err |-> "",
           short |-> buff.short \/ length.short \/ frmt.short \/ trackCount.short
                       \/ division.short \/ rest.short]

\* _readTrack(f) up to the event loop: the tag check and the length field
ReadTrackStart(s, p) ==
  LET buff == ReadBlock(s, p, 4)
      length == ReadInt(s, buff.pos, 4)
  IN IF buff.buff # CHUNK_TYPE_TRACK
     THEN [pos |-> buff.pos, err |-> "MIDIIOError", short |-> buff.short]
     ELSE [pos |-> length.pos, err |-> "", short |-> buff.short \/ length.short]

----------------------------------------------------------------------------
(* The files given to the reader *)

\* n as k big-endian bytes
RECURSIVE Bytes(_, _)
Bytes(k, n) == IF k = 0 THEN <<>> ELSE Bytes(k - 1, n \div 256) \o <<n % 256>>

\* a header chunk declaring `length`, format 1, `trackCount`, division 96, then `pad`
HeaderChunk(length, trackCount, pad) ==
  CHUNK_TYPE_HEADER \o Bytes(4, length) \o Bytes(2, 1) \o Bytes(2, trackCount)
    \o Bytes(2, 96) \o pad

TrackChunk(body) == CHUNK_TYPE_TRACK \o Bytes(4, Len(body)) \o body

EndOfTrackBytes == <<0, 255, 47, 0>>

\* delta, then an event; 60 0 and 5 are events under running status
EventBytes ==
  { <<0, 144, 60, 100>>,       \* NoteOn ch 0 key 60 velocity 100
    <<0, 60, 0>>,              \* two data bytes, no status byte
    <<0, 193, 5>>,             \* ProgramChange ch 1 value 5
    <<0, 5>>,                  \* one data byte, no status byte
    <<0, 255, 1, 2, 65, 66>>,  \* meta type 1, data "AB"
    <<0, 240, 1, 126>>,        \* system exclusive, one data byte
    <<0, 241, 0>>,             \* status 0xF1
    <<0, 255, 127, 0>>,        \* meta type 0x7F, no data
    <<129, 0, 128, 60, 64>> }  \* delta 128, NoteOff

RECURSIVE Bodies(_)
\* the concatenations of at most k events
Bodies(k) ==
  IF k = 0 THEN {<<>>}
  ELSE Bodies(k - 1) \cup {b \o e : b \in Bodies(k - 1), e \in EventBytes}

RECURSIVE TrackChunks(_)
\* k track chunks of at most one event each before the EndOfTrack
TrackChunks(k) ==
  IF k = 0 THEN {<<>>}
  ELSE {t \o TrackChunk(b \o EndOfTrackBytes) : t \in TrackChunks(k - 1), b \in Bodies(1)}

Pads == {[i \in 1..n |-> 170] : n \in 0..MaxPad}

Prefixes(s) == {SubSeq(s, 1, n) : n \in 0..Len(s)}

RunningStatusExample == <<0, 144, 60, 100, 0, 60, 0>>

Files ==
  \* one track of up to MaxEvents events
  {HeaderChunk(6, 1, <<>>) \o TrackChunk(b \o EndOfTrackBytes) : b \in Bodies(MaxEvents)}
  \* several short tracks
  \cup UNION {{HeaderChunk(6, k, <<>>) \o t : t \in TrackChunks(k)} : k \in 2..MaxTracks}
  \* declared header lengths below, at and above 6
  \cup {HeaderChunk(6 + Len(pad), n, pad) \o TrackChunk(EndOfTrackBytes) :
          pad \in Pads, n \in 0..1}
  \cup {HeaderChunk(l, n, <<>>) \o TrackChunk(EndOfTrackBytes) : l \in 4..5, n \in 0..1}
  \* a wrong header tag, a wrong track tag
  \cup {<<88, 88, 88, 88>> \o Bytes(4, 6),
        HeaderChunk(6, 1, <<>>) \o <<88, 88, 88, 88>> \o Bytes(4, 4) \o EndOfTrackBytes}
  \* every channel status, then two data bytes under running status
  \cup {HeaderChunk(6, 1, <<>>)
          \o TrackChunk(<<0, n * 16 + 3, 1, 2, 0, 3, 4>> \o EndOfTrackBytes) : n \in 8..14}
  \* meta types around 0x2F and at both ends of the range
  \cup {HeaderChunk(6, 1, <<>>) \o TrackChunk(<<0, 255, t, 1, 9>> \o EndOfTrackBytes) :
          t \in {0, 46, 48, 255}}
  \* files cut short at every offset
  \cup Prefixes(HeaderChunk(6, 1, <<>>)
                  \o TrackChunk(RunningStatusExample \o <<0, 255, 1, 2, 65, 66>>
                                  \o <<0, 255, 47, 3, 1, 2, 3>>))

----------------------------------------------------------------------------
(* MIDIWriter.  A write operator returns [bytes, err]: the bytes it gave to *)
(* f.write before returning or raising, and the exception class.            *)

\* _concatPrefix(status, channel)
ConcatPrefix(status, channel) == status * 16 + channel

\* _writeInt(f, byteCount, n): chr((n >> (i*8)) & 0xFF) for i = byteCount-1 .. 0
WriteInt(n, k) == [i \in 1..n |-> (k \div (256 ^ (n - i))) % 256]

RECURSIVE VarLenGroups(_)
\* the while loop of _writeVarLen: 7-bit groups, least significant first
VarLenGroups(n) ==
  IF n \div 128 = 0 THEN <<n % 128>> ELSE <<n % 128>> \o VarLenGroups(n \div 128)

\* a mutation of WriteVarLen: the continuation bit is set on every byte
WriteVarLenAllFlagged(n) ==
  LET buff == VarLenGroups(n)
  IN [i \in 1..Len(buff) |-> buff[Len(buff) + 1 - i] + 128]

\* _writeVarLen(f, n): lines 386-388 flag all groups but the first, write in reverse
WriteVarLen(n) ==
  LET buff == VarLenGroups(n)
      flagged == [i \in 1..Len(buff) |-> IF i = 1 THEN buff[i] ELSE buff[i] + 128]
  IN [i \in 1..Len(buff) |-> flagged[Len(buff) + 1 - i]]

\* _writeMetaEvent(f, event)
WriteMetaEvent(event) ==
  [bytes |-> WriteInt(1, PREFIX_META) \o WriteInt(1, event.metaType)
               \o WriteInt(1, Len(event.data)) \o event.data,
   err |-> ""]

\* _writeSystemExclusiveEvent(f, event): line 368 names `data`, which is unbound
WriteSystemExclusiveEvent(event) ==
  [bytes |-> WriteInt(1, event.sysExType) \o WriteInt(1, Len(event.data)),
   err |-> IF event.data # <<>> THEN "NameError" ELSE ""]

\* _writeMIDIEvent(f, event)
WriteMIDIEvent(event) ==
  LET Out(status, operands) ==
        [bytes |-> WriteInt(1, ConcatPrefix(status, event.channel)) \o operands,
         err |-> ""]
      two == WriteInt(1, event.a) \o WriteInt(1, event.b)
      one == WriteInt(1, event.a)
  IN CASE event.cls = "NoteOffEvent" -> Out(STATUS_NOTE_OFF, two)
       [] event.cls = "NoteOnEvent" -> Out(STATUS_NOTE_ON, two)
       [] event.cls = "PolyphonicKeyPressureEvent" -> Out(STATUS_POLY_KEY_PRESS, two)
       [] event.cls = "ControlChangeEvent" -> Out(STATUS_CONTROL_CHANGE, two)
       [] event.cls = "ProgramChangeEvent" -> Out(STATUS_PROGRAM_CHANGE, one)
       [] event.cls = "ChannelPressureEvent" -> Out(STATUS_CHANNEL_PRESS, one)
       [] event.cls = "PitchWheelChangeEvent" -> Out(STATUS_PITCH_WHEEL_CHANGE, two)
       [] OTHER -> [bytes |-> <<>>, err |-> ""]

\* _writeEvent(f, event); EndOfTrackEvent is a MetaEvent
WriteEvent(event) ==
  LET r == IF event.cls = "SystemExclusiveEvent" THEN WriteSystemExclusiveEvent(event)
           ELSE IF event.cls \in {"MetaEvent", "EndOfTrackEvent"} THEN WriteMetaEvent(event)
           ELSE WriteMIDIEvent(event)
  IN [r EXCEPT !.bytes = WriteVarLen(event.delta) \o @]

RECURSIVE WriteEvents(_)
\* the loop of lines 307-308 into the BytesIO buffer
WriteEvents(events) ==
  IF events = <<>> THEN [bytes |-> <<>>, err |-> ""]
  ELSE LET r == WriteEvent(Head(events)) IN
       IF r.err # "" THEN r
       ELSE LET rest == WriteEvents(Tail(events))
            IN [bytes |-> r.bytes \o rest.bytes, err |-> rest.err]

\* _writeTrack(f, track): the tag goes to f first; the buffer reaches f only if
\* every event was encoded
WriteTrack(events) ==
  LET buff == WriteEvents(events) IN
  IF buff.err # "" THEN [bytes |-> CHUNK_TYPE_TRACK, err |-> buff.err]
  ELSE [bytes |-> CHUNK_TYPE_TRACK \o WriteInt(4, Len(buff.bytes)) \o buff.bytes,
        err |-> ""]

\* _writeHeader(f, header)
WriteHeader(hdr) ==
  CHUNK_TYPE_HEADER \o WriteInt(4, 6) \o WriteInt(2, hdr.frmt)
    \o WriteInt(2, hdr.trackCount) \o WriteInt(2, hdr.division)

RECURSIVE WriteTracks(_)
\* the loop of lines 293-294
WriteTracks(trks) ==
  IF trks = <<>> THEN [bytes |-> <<>>, err |-> ""]
  ELSE LET r == WriteTrack(Head(trks)) IN
       IF r.err # "" THEN r
       ELSE LET rest == WriteTracks(Tail(trks))
            IN [bytes |-> r.bytes \o rest.bytes, err |-> rest.err]

\* MIDIWriter.write(fileName, midi); iterating tracks = None raises TypeError
Write(midi) ==
  IF midi.tracksNone THEN [bytes |-> WriteHeader(midi.header), err |-> "TypeError"]
  ELSE LET r == WriteTracks(midi.tracks)
       IN [bytes |-> WriteHeader(midi.header) \o r.bytes, err |-> r.err]

----------------------------------------------------------------------------
(* The documents given to the writer *)

LongData == [i \in 1..128 |-> i % 128]

DocEvents ==
  { NoteOnEvent(0, 0, 60, 100),
    ProgramChangeEvent(0, 1, 5),
    NoteOffEvent(128, 2, 60, 64),
    MetaEvent(0, 1, <<65, 66>>),
    MetaEvent(0, 3, LongData),
    SystemExclusiveEvent(0, PREFIX_SYSEX, <<>>),
    SystemExclusiveEvent(0, PREFIX_SYSEX_NOXMIT, <<126>>) }

RECURSIVE EventSeqs(_)
EventSeqs(k) ==
  IF k = 0 THEN {<<>>}
  ELSE EventSeqs(k - 1) \cup {Append(t, e) : t \in EventSeqs(k - 1), e \in DocEvents}

\* well-formed tracks: events, then one EndOfTrack
DocTracks == {Append(t, EndOfTrackEvent(0)) : t \in EventSeqs(MaxEvents)}

Formats == {0, 1}

----------------------------------------------------------------------------
(* MIDIReader.read, one step per action *)

CallerVars == <<writerVars, varLenVars>>

\* entry of read(fileName): open the file; the reader object keeps its fields
Read(f) ==
  /\ pc = "idle"
  /\ reads < MaxReads
  /\ reads' = reads + 1
  /\ file' = f
  /\ pos' = 0
  /\ pc' = "header"
  /\ err' = ""
  /\ header' = NoHeader
  /\ tracks' = <<>>
  /\ track' = <<>>
  /\ prefix' = 0
  /\ evPos' = 0
  /\ shortRead' = FALSE
  /\ result' = NoMIDI
  /\ UNCHANGED runningStatus

ReadFile == \E f \in Files : Read(f) /\ UNCHANGED CallerVars

\* line 156, and the loop test of line 158
DoReadHeader ==
  /\ pc = "header"
  /\ LET r == ReadHeader(file, pos) IN
       /\ pos' = r.pos
       /\ shortRead' = (shortRead \/ r.short)
       /\ err' = r.err
       /\ header' = r.header
       /\ pc' = IF r.err # "" THEN "error"
                ELSE IF r.header.trackCount > 0 THEN "track" ELSE "return"
  /\ UNCHANGED <<file, runningStatus, tracks, track, prefix, evPos, result, reads>>
  /\ UNCHANGED CallerVars

\* lines 178-183
DoReadTrackStart ==
  /\ pc = "track"
  /\ LET r == ReadTrackStart(file, pos) IN
       /\ pos' = r.pos
       /\ shortRead' = (shortRead \/ r.short)
       /\ err' = r.err
       /\ pc' = IF r.err # "" THEN "error" ELSE "event"
  /\ track' = <<>>
  /\ UNCHANGED <<file, runningStatus, header, tracks, prefix, evPos, result, reads>>
  /\ UNCHANGED CallerVars

\* one iteration of the loop of lines 185-189; at EndOfTrack, lines 190 and 160
\* and the loop test of line 158
DoReadEvent ==
  /\ pc = "event"
  /\ LET r == ReadEvent(file, pos, runningStatus)
         isEnd == r.event.cls = "EndOfTrackEvent"
     IN
       /\ evPos' = pos
       /\ prefix' = r.prefix
       /\ pos' = r.pos
       /\ runningStatus' = r.rs
       /\ shortRead' = (shortRead \/ r.short)
       /\ err' = r.err
       /\ track' = IF r.err # "" THEN track ELSE Append(track, r.event)
       /\ tracks' = IF r.err = "" /\ isEnd THEN Append(tracks, Append(track, r.event))
                    ELSE tracks
       /\ pc' = IF r.err # "" THEN "error"
                ELSE IF ~isEnd THEN "event"
                ELSE IF Len(tracks) + 1 < header.trackCount THEN "track" ELSE "return"
  /\ UNCHANGED <<file, header, result, reads>>
  /\ UNCHANGED CallerVars

\* line 161
DoReturn ==
  /\ pc = "return"
  /\ result' = MIDI(header, tracks, FALSE)
  /\ pc' = "done"
  /\ UNCHANGED <<file, pos, err, runningStatus, header, tracks, track,
                 prefix, evPos, shortRead, reads>>
  /\ UNCHANGED CallerVars

\* read() has returned or raised, the file is closed and the caller lets go of
\* the outcome; the MIDIReader object stays
EndRead ==
  /\ pc \in {"done", "error"}
  /\ pc' = "idle"
  /\ file' = <<>>
  /\ pos' = 0
  /\ err' = ""
  /\ header' = NoHeader
  /\ tracks' = <<>>
  /\ track' = <<>>
  /\ prefix' = 0
  /\ evPos' = 0
  /\ shortRead' = FALSE
  /\ result' = NoMIDI
  /\ UNCHANGED <<runningStatus, reads>>
  /\ UNCHANGED CallerVars

ReaderInit ==
  /\ file = <<>>
  /\ pos = 0
  /\ pc = "idle"
  /\ err = ""
  /\ runningStatus = 0
  /\ header = NoHeader
  /\ tracks = <<>>
  /\ track = <<>>
  /\ prefix = 0
  /\ evPos = 0
  /\ shortRead = FALSE
  /\ result = NoMIDI
  /\ reads = 0

WriterIdle ==
  /\ doc = NoMIDI
  /\ dpc = "new"
  /\ disk = <<>>
  /\ werr = ""

VarLenIdle ==
  /\ vn = 0
  /\ vtail = <<>>
  /\ vbytes = <<>>
  /\ vres = [val |-> 0, pos |-> 0, err |-> ""]
  /\ vpc = "start"

Init == ReaderInit /\ WriterIdle /\ VarLenIdle

Next ==
  ReadFile \/ DoReadHeader \/ DoReadTrackStart \/ DoReadEvent \/ DoReturn \/ EndRead

Spec == Init /\ [][Next]_vars

----------------------------------------------------------------------------
(* A caller that builds a MIDI document, writes it and reads the file back *)

\* midi = MIDI(MIDIHeader(frmt, 96), tracks)   or   MIDI(MIDIHeader(frmt, 96))
NewMIDI ==
  /\ dpc = "new"
  /\ \E frmt \in Formats, isNone \in BOOLEAN, trks \in {<<>>} \cup {<<t>> : t \in DocTracks} :
       /\ isNone => trks = <<>>
       /\ doc' = MIDI(MIDIHeader(frmt, 96, 0), trks, isNone)
  /\ dpc' = "built"
  /\ UNCHANGED <<disk, werr, readerVars, varLenVars>>

\* midi.tracks.append(track)
AppendTrack ==
  /\ dpc = "built"
  /\ ~doc.tracksNone
  /\ Len(doc.tracks) < MaxTracks
  /\ \E t \in DocTracks : doc' = [doc EXCEPT !.tracks = Append(@, t)]
  /\ UNCHANGED <<dpc, disk, werr, readerVars, varLenVars>>

\* midi.tracks.pop()
RemoveTrack ==
  /\ dpc = "built"
  /\ doc.tracks # <<>>
  /\ doc' = [doc EXCEPT !.tracks = SubSeq(@, 1, Len(@) - 1)]
  /\ UNCHANGED <<dpc, disk, werr, readerVars, varLenVars>>

\* midi.header.trackCount = n
SetTrackCount ==
  /\ dpc = "built"
  /\ \E n \in 0..MaxTracks :
       /\ n # doc.header.trackCount
       /\ doc' = [doc EXCEPT !.header.trackCount = n]
  /\ UNCHANGED <<dpc, disk, werr, readerVars, varLenVars>>

\* midi.header = MIDIHeader(frmt, 96): trackCount takes its default, 0
ReplaceHeader ==
  /\ dpc = "built"
  /\ \E frmt \in Formats :
       /\ MIDIHeader(frmt, 96, 0) # doc.header
       /\ doc' = [doc EXCEPT !.header = MIDIHeader(frmt, 96, 0)]
  /\ UNCHANGED <<dpc, disk, werr, readerVars, varLenVars>>

\* MIDIWriter().write(fileName, midi)
DoWrite ==
  /\ dpc = "built"
  /\ LET r == Write(doc) IN
       /\ disk' = r.bytes
       /\ werr' = r.err
  /\ dpc' = "written"
  /\ UNCHANGED <<doc, readerVars, varLenVars>>

\* reader.read(fileName) on the file just written
ReadDisk ==
  /\ dpc = "written"
  /\ Read(disk)
  /\ UNCHANGED CallerVars

NextRT ==
  \/ NewMIDI \/ AppendTrack \/ RemoveTrack \/ SetTrackCount \/ ReplaceHeader
  \/ DoWrite \/ ReadDisk
  \/ DoReadHeader \/ DoReadTrackStart \/ DoReadEvent \/ DoReturn \/ EndRead

SpecRT == Init /\ [][NextRT]_vars

----------------------------------------------------------------------------
(* _writeVarLen followed by _readVarLen on one integer *)

VarLenInputs ==
  (0..MaxVarLen) \cup {127, 128, 129, 255, 256, 16383, 16384, 2097151, 2097152,
                       268435455}

Tails == {<<>>, <<0>>, <<129, 0>>}

VarLenInit ==
  /\ vn \in VarLenInputs
  /\ vtail \in Tails
  /\ vbytes = <<>>
  /\ vres = [val |-> 0, pos |-> 0, err |-> ""]
  /\ vpc = "start"

DoWriteVarLen ==
  /\ vpc = "start"
  /\ vbytes' = WriteVarLen(vn) \o vtail
  /\ vpc' = "written"
  /\ UNCHANGED <<vn, vtail, vres, readerVars, writerVars>>

DoReadVarLen ==
  /\ vpc = "written"
  /\ vres' = ReadVarLen(vbytes, 0)
  /\ vpc' = "read"
  /\ UNCHANGED <<vn, vtail, vbytes, readerVars, writerVars>>

InitVL == ReaderInit /\ WriterIdle /\ VarLenInit

NextVL == DoWriteVarLen \/ DoReadVarLen

SpecVL == InitVL /\ [][NextVL]_vars

----------------------------------------------------------------------------
(* What the properties below read off a byte stream, written from the file  *)
(* format and not from the reader.                                          *)

RECURSIVE VlqEnd(_, _)
\* offset just after the variable-length quantity that starts at offset p,
\* or -1 when the stream ends inside it
VlqEnd(s, p) ==
  IF p >= Len(s) THEN -1
  ELSE IF s[p + 1] < 128 THEN p + 1 ELSE VlqEnd(s, p + 1)

RECURSIVE VlqValue(_, _, _)
\* the quantity held by the bytes at offsets p .. q-1
VlqValue(s, p, q) ==
  IF q <= p THEN 0 ELSE VlqValue(s, p, q - 1) * 128 + (s[q] % 128)

RECURSIVE BitLength(_)
BitLength(v) == IF v = 0 THEN 0 ELSE 1 + BitLength(v \div 2)

\* max(1, ceil(bitlength(v) / 7))
MinimalLength(v) == IF v = 0 THEN 1 ELSE (BitLength(v) + 6) \div 7

RECURSIVE VlqDigits(_, _)
\* base-128 digits of n, most significant first, `flag` added to the last one
VlqDigits(n, flag) ==
  IF n < 128 THEN <<n + flag>> ELSE VlqDigits(n \div 128, 128) \o <<(n % 128) + flag>>

Vlq(n) == VlqDigits(n, 0)

OperandCount(nibble) == IF nibble \in {12, 13} THEN 1 ELSE 2

ClassOf(nibble) ==
  CASE nibble = 8 -> "NoteOffEvent"
    [] nibble = 9 -> "NoteOnEvent"
    [] nibble = 10 -> "PolyphonicKeyPressureEvent"
    [] nibble = 11 -> "ControlChangeEvent"
    [] nibble = 12 -> "ProgramChangeEvent"
    [] nibble = 13 -> "ChannelPressureEvent"
    [] nibble = 14 -> "PitchWheelChangeEvent"
    [] OTHER -> "None"

Last(q) == q[Len(q)]

\* the channel event of the given status byte, delta and operand bytes at offset o
ChannelEventAt(s, status, delta, o) ==
  Event(ClassOf(status \div 16), delta, status % 16, s[o + 1],
        IF OperandCount(status \div 16) = 2 THEN s[o + 2] ELSE 0, 0, 0, <<>>)

NoChannelEvent(events) == \A i \in 1..Len(events) : events[i].cls \notin ChannelClasses

\* offset of the prefix byte of the event that starts at pos, or -1 when the
\* stream ends before it
PrefixAt == LET q == VlqEnd(file, pos) IN IF q >= 0 /\ q < Len(file) THEN q ELSE -1

----------------------------------------------------------------------------
(* C2: for every v given to _writeVarLen, the bytes written have             *)
(* max(1, ceil(bitlength(v)/7)) bytes, the high bit set on all but the last, *)
(* a first byte other than 0x80 when there are several, 0 is the single byte *)
(* 0x00; and _readVarLen on those bytes (whatever follows them) returns v    *)
(* and stops just after them.                                                *)
C2_VarLenRoundTrip ==
  /\ vpc \in {"written", "read"} =>
       LET n == Len(vbytes) - Len(vtail)
           enc == SubSeq(vbytes, 1, n)
       IN /\ n = MinimalLength(vn)
          /\ SubSeq(vbytes, n + 1, Len(vbytes)) = vtail
          /\ \A i \in 1..n : enc[i] \in 0..255
          /\ \A i \in 1..(n - 1) : enc[i] >= 128
          /\ enc[n] < 128
          /\ n > 1 => enc[1] # 128
          /\ vn = 0 => enc = <<0>>
  /\ vpc = "read" =>
       /\ vres.err = ""
       /\ vres.val = vn
       /\ vres.pos = Len(vbytes) - Len(vtail)

\* a three-byte encoding, followed by more bytes, has been written and read back
C2_Witness ==
  /\ vpc = "read"
  /\ vn = 16384
  /\ vtail = <<129, 0>>
  /\ Len(vbytes) = 5

----------------------------------------------------------------------------
\* the event at pos has a data byte as prefix, the stored status is a channel
\* status, and the operands it calls for are in the file
RunningStatusCase ==
  /\ pc = "event"
  /\ PrefixAt >= 0
  /\ file[PrefixAt + 1] < 128
  /\ runningStatus \div 16 \in 8..14
  /\ PrefixAt + OperandCount(runningStatus \div 16) <= Len(file)

\* the event at pos has a channel status byte as prefix, followed by its operands
FreshStatusCase ==
  /\ pc = "event"
  /\ PrefixAt >= 0
  /\ file[PrefixAt + 1] \div 16 \in 8..14
  /\ PrefixAt + 1 + OperandCount(file[PrefixAt + 1] \div 16) <= Len(file)

C3_Step ==
  /\ RunningStatusCase =>
       /\ err' = ""
       /\ runningStatus' = runningStatus
       /\ pos' = PrefixAt + OperandCount(runningStatus \div 16)
       /\ track' = Append(track, ChannelEventAt(file, runningStatus,
                                   VlqValue(file, pos, PrefixAt), PrefixAt))
  /\ FreshStatusCase =>
       /\ err' = ""
       /\ runningStatus' = file[PrefixAt + 1]
       /\ pos' = PrefixAt + 1 + OperandCount(file[PrefixAt + 1] \div 16)
       /\ track' = Append(track, ChannelEventAt(file, file[PrefixAt + 1],
                                   VlqValue(file, pos, PrefixAt), PrefixAt + 1))

RunningStatusFile ==
  HeaderChunk(6, 1, <<>>) \o TrackChunk(RunningStatusExample \o EndOfTrackBytes)

C3_Example ==
  (pc = "done" /\ file = RunningStatusFile) =>
    result.tracks = << <<NoteOnEvent(0, 0, 60, 100), NoteOnEvent(0, 0, 60, 0),
                         EndOfTrackEvent(0)>> >>

(* C3: an event whose prefix byte has the high bit clear is decoded with the *)
(* nibble and channel of the stored status byte and the prefix byte as first *)
(* operand; the position advances by the length of delta plus the number of  *)
(* operands and the stored status is unchanged.  A prefix with the high bit  *)
(* set becomes the stored status and the operands are the bytes after it.    *)
(* The bytes 00 90 3C 64 00 3C 00 decode to NoteOn(0, 3C, 64), NoteOn(0, 3C, *)
(* 00).                                                                      *)
C3_RunningStatus == [][C3_Step]_vars /\ []C3_Example

\* a two-operand event has just been decoded under running status
C3_Witness ==
  /\ pc = "event"
  /\ err = ""
  /\ prefix < 128
  /\ track # <<>>
  /\ Last(track).cls = "NoteOnEvent"
  /\ Last(track).a = prefix
  /\ pos = evPos + 3
  /\ runningStatus = 144

----------------------------------------------------------------------------
(* C4: a channel event whose prefix has the high bit clear, met in a track   *)
(* in which no status byte has been stored yet, is never decoded with a      *)
(* status byte stored in an earlier track or an earlier read.                *)
C4_StatusResetPerTrack ==
  [][ (pc = "event" /\ NoChannelEvent(track) /\ PrefixAt >= 0
         /\ file[PrefixAt + 1] < 128)
      => ~(err' = "" /\ track' # track /\ Last(track').cls \in ChannelClasses) ]_vars

----------------------------------------------------------------------------
(* C5: in the file a successful write leaves, the header chunk declares      *)
(* length 6 and its trackCount field equals len(midi.tracks), the number of  *)
(* track chunks written.                                                     *)
C5_TrackCountWritten ==
  (dpc = "written" /\ werr = "") =>
    /\ SubSeq(disk, 5, 8) = <<0, 0, 0, 6>>
    /\ disk[11] * 256 + disk[12] = Len(doc.tracks)

----------------------------------------------------------------------------
\* the event at pos has a present prefix byte that calls for an unsupported status
UnsupportedCase ==
  /\ pc = "event"
  /\ PrefixAt >= 0
  /\ \/ file[PrefixAt + 1] \in (241..246) \cup (248..254)
     \/ file[PrefixAt + 1] < 128 /\ NoChannelEvent(track)

(* C6: such an event ends the read with the codec's error (MIDIIOError);     *)
(* no event is appended and no document is returned.                         *)
C6_UnsupportedStatus ==
  [][ UnsupportedCase =>
        /\ pc' = "error"
        /\ err' = "MIDIIOError"
        /\ track' = track
        /\ tracks' = tracks ]_vars

----------------------------------------------------------------------------
\* declared length of the header chunk of a file with a complete 14-byte header
DeclaredLength == ((file[5] * 256 + file[6]) * 256 + file[7]) * 256 + file[8]

(* C7: header decode with declared length L: for L >= 6 the reader stands at *)
(* offset 8 + L afterwards; for L < 6 the read fails with the codec's error, *)
(* without reading past the header.                                          *)
C7_HeaderLength ==
  [][ (pc = "header" /\ Len(file) >= 14 /\ SubSeq(file, 1, 4) = CHUNK_TYPE_HEADER
         /\ Len(file) >= 8 + DeclaredLength)
      => IF DeclaredLength >= 6
         THEN err' = "" /\ pos' = 8 + DeclaredLength
         ELSE pc' = "error" /\ err' = "MIDIIOError" /\ pos' <= 14 ]_vars

----------------------------------------------------------------------------
\* what the claim says the writer emits for a meta or system-exclusive event
LengthPrefixed(e) ==
  Vlq(e.delta)
    \o (IF e.cls = "SystemExclusiveEvent" THEN <<e.sysExType>> ELSE <<255, e.metaType>>)
    \o Vlq(Len(e.data)) \o e.data

(* C8: for every meta and system-exclusive event of a written document, the  *)
(* writer emits prefix, the data length as a variable-length quantity and    *)
(* the data, and the reader parses these bytes as that one event.            *)
C8_LengthPrefixedData ==
  dpc = "written" =>
    \A i \in 1..Len(doc.tracks) : \A j \in 1..Len(doc.tracks[i]) :
      LET e == doc.tracks[i][j]
          w == WriteEvent(e)
          r == ReadEvent(w.bytes, 0, 0)
      IN e.cls \in {"MetaEvent", "EndOfTrackEvent", "SystemExclusiveEvent"} =>
           /\ w.err = ""
           /\ w.bytes = LengthPrefixed(e)
           /\ r.err = "" /\ r.event = e /\ r.pos = Len(w.bytes)

----------------------------------------------------------------------------
\* the event at pos is a meta event whose type, length and data are in the file
MetaCase ==
  /\ pc = "event"
  /\ PrefixAt >= 0
  /\ file[PrefixAt + 1] = 255
  /\ PrefixAt + 2 <= Len(file)
  /\ VlqEnd(file, PrefixAt + 2) >= 0
  /\ VlqEnd(file, PrefixAt + 2)
       + VlqValue(file, PrefixAt + 2, VlqEnd(file, PrefixAt + 2)) <= Len(file)

C9_Step ==
  /\ MetaCase =>
       LET metaType == file[PrefixAt + 2]
           d == VlqEnd(file, PrefixAt + 2)
           n == VlqValue(file, PrefixAt + 2, d)
           delta == VlqValue(file, pos, PrefixAt)
       IN /\ err' = ""
          /\ pos' = d + n
          /\ IF metaType # 47
             THEN /\ track' = Append(track, MetaEvent(delta, metaType,
                                                        SubSeq(file, d + 1, d + n)))
                  /\ pc' = "event"
                  /\ tracks' = tracks
             ELSE /\ track' = Append(track, EndOfTrackEvent(delta))
                  /\ pc' \in {"track", "return"}
                  /\ tracks' = Append(tracks, track')
  /\ (pc = "event" /\ (pc' \in {"track", "return"} \/ tracks' # tracks)) =>
       /\ PrefixAt >= 0
       /\ file[PrefixAt + 1] = 255
       /\ PrefixAt + 2 <= Len(file)
       /\ file[PrefixAt + 2] = 47
       /\ Last(track').cls = "EndOfTrackEvent"

(* C9: a meta event of any type other than 0x2F decodes without error to a   *)
(* MetaEvent with that type and the declared-length data, and the track's    *)
(* loop goes on; type 0x2F, and only it, gives EndOfTrack and ends the loop. *)
C9_UnknownMeta == [][C9_Step]_vars

\* a meta event of type 1 with two data bytes was decoded and the loop goes on
C9_Witness ==
  /\ pc = "event"
  /\ err = ""
  /\ prefix = 255
  /\ track # <<>>
  /\ Last(track) = MetaEvent(0, 1, <<65, 66>>)
  /\ pos = evPos + 6

----------------------------------------------------------------------------
(* C10: once a read of n bytes has returned fewer than n bytes, the file     *)
(* decode has failed with the codec's error; no further step is taken and no *)
(* document is returned.                                                     *)
C10_Truncation == shortRead => (pc = "error" /\ err = "MIDIIOError")

----------------------------------------------------------------------------
\* header plus tracks, each a sequence of events ending in one EndOfTrack
WellFormed(d) ==
  /\ ~d.tracksNone
  /\ d.header.trackCount = Len(d.tracks)
  /\ \A i \in 1..Len(d.tracks) :
       /\ d.tracks[i] # <<>>
       /\ \A j \in 1..Len(d.tracks[i]) :
            (d.tracks[i][j].cls = "EndOfTrackEvent") <=> (j = Len(d.tracks[i]))

(* C1: writing a well-formed document succeeds, and reading the file back    *)
(* succeeds and returns a document equal to it, field by field.              *)
C1_RoundTrip ==
  (dpc = "written" /\ WellFormed(doc)) =>
    /\ werr = ""
    /\ pc # "error"
    /\ pc = "done" => result = doc

====
